---- MODULE Spec2Model ----
(***************************************************************************)
(* Model of ExportNow2.py: a five-stage export pipeline run inside a 3D    *)
(* authoring host.  Every stage reads the host selection and issues host   *)
(* commands; the host's answers (is the node referenced, which children    *)
(* does it have, did the command fail) are inputs of the model.            *)
(*                                                                         *)
(* Strings are sequences of one-character strings, so that substring       *)
(* tests and character replacement are computed, not assumed.              *)
(***************************************************************************)
EXTENDS Integers, Sequences, FiniteSets, TLC

VARIABLES
    pc,               \* position of the script
    sel,              \* the host's current selection (a list of node names)
    sel0,             \* the selection when the pipeline started
    selected_groups,  \* the running stage's local copy of the selection
    i,                \* index of the next item of the running stage's loop
    stages,           \* the stages invoked so far, in order
    calls,            \* scene/file-changing host calls issued by the running stage
    obs,              \* what the host answered for each item of the running stage
    out,              \* messages printed by the running stage
    bakeFailed,       \* a bakeResults call raised
    dirExists,        \* the export directory exists
    dir0,             \* the export directory existed when the pipeline started
    files             \* the files in the export directory written by this run

vars == <<pc, sel, sel0, selected_groups, i, stages, calls, obs, out,
          bakeFailed, dirExists, dir0, files>>

----------------------------------------------------------------------------
(* Bounds and the names the inputs are drawn from *)

MaxSel == 2

Data_Grp == <<"D","a","t","a","_","G","r","p">>
Render_Grp == <<"R","e","n","d","e","r","_","G","r","p">>
BlendShapes_Grp == <<"B","l","e","n","d","S","h","a","p","e","s","_","G","r","p">>
Combined_fbx == <<"_","C","o","m","b","i","n","e","d",".","f","b","x">>
Ctrl == <<"_","C","t","r","l">>
CTRL == <<"_","C","T","R","L">>

\* the literal passed to run_full_pipeline
export_directory ==
    <<"C",":","\\","U","s","e","r","s","\\","u","0","4","9","\\",
      "D","o","c","u","m","e","n","t","s","\\","m","a","y","a">>

\* item identifiers as the host's selection query reports them
CharRootBody == <<"C","h","a","r",":","R","o","o","t","|","B","o","d","y">>
Char_Root_Body == <<"C","h","a","r","_","R","o","o","t","_","B","o","d","y">>
Data_Grp_Set == Data_Grp \o <<"_","S","e","t">>
Prop == <<"P","r","o","p">>

Items == {CharRootBody, Char_Root_Body, Data_Grp_Set, Prop}

\* short names of direct children
Mesh == <<"M","e","s","h">>
Render_Grp1 == Render_Grp \o <<"1">>

KidLists == { <<>>, <<Mesh>>, <<Data_Grp, Mesh>>, <<Render_Grp1>> }

RECURSIVE SeqsUpTo(_)
SeqsUpTo(n) ==
    IF n = 0 THEN { <<>> }
    ELSE LET shorter == SeqsUpTo(n - 1)
         IN  shorter \cup
             { Append(s, x) : s \in { t \in shorter : Len(t) = n - 1 },
                              x \in Items }

Range(s) == { s[k] : k \in 1..Len(s) }

\* the host reports each selected node once
Selections == { s \in SeqsUpTo(MaxSel) : Cardinality(Range(s)) = Len(s) }

----------------------------------------------------------------------------
(* String helpers *)

\* Python's  pat in s
Contains(pat, s) ==
    \E k \in 0..(Len(s) - Len(pat)) : SubSeq(s, k + 1, k + Len(pat)) = pat

\* Python's  s.replace(old, new)  for a one-character old
RECURSIVE Replace(_, _, _)
Replace(s, old, new) ==
    IF s = <<>> THEN <<>>
    ELSE (IF Head(s) = old THEN new ELSE <<Head(s)>>) \o Replace(Tail(s), old, new)

\* os.path.join on the host's platform, for a relative second part
Join(dir, name) == dir \o <<"\\">> \o name

\* the full path the host reports for a direct child of a top-level node
FullPath(group, kid) == <<"|">> \o group \o <<"|">> \o kid

----------------------------------------------------------------------------
(* The script's own logic *)

\* run_full_pipeline: the position the script is at when a stage has returned
AfterStage_SkipsRemover(stage) ==
    CASE stage = "import" -> "bake"
      [] stage = "bake"   -> "strip"
      [] stage = "strip"  -> "export"
      [] stage = "blend"  -> "export"
      [] stage = "export" -> "done"

AfterStage(stage) ==
    CASE stage = "import" -> "bake"
      [] stage = "bake"   -> "strip"
      [] stage = "strip"  -> "blend"
      [] stage = "blend"  -> "export"
      [] stage = "export" -> "done"

\* the host commands whose call sits inside a try/except Exception block
Caught_NotExport(cmd) == cmd \in {"referenceQuery", "importReference"}

Caught_All(cmd) == TRUE

Caught(cmd) == cmd \in {"referenceQuery", "importReference", "exportSelected"}

\* where the script is after a host command raised
AfterFailure(cmd, next) == IF Caught(cmd) THEN next ELSE "halted"

\* importer: the import is reached when the node is reported referenced and
\* the query for its file returned
IssuesImport_Unguarded(isRef, fileq) == isRef # "err" /\ fileq = "ok"

IssuesImport(isRef, fileq) == isRef = "yes" /\ fileq = "ok"

\* the file the host names for a referenced node
RefFile(group) == group \o <<".","m","a">>

\* cmds.select(selected_groups) at the end of the importer and the remover
Select(groups) == groups

\* baker: cmds.select(selected_groups) after the bake
BakeRestoreSel_Missing(groups, cur) == cur

BakeRestoreSel(groups, cur) == groups

\* remover: f"{group}|Data_Grp|BlendShapes_Grp"
BlendPath_NoData(group) == group \o <<"|">> \o BlendShapes_Grp

BlendPath(group) == group \o <<"|">> \o Data_Grp \o <<"|">> \o BlendShapes_Grp

\* exporter: not os.path.exists(export_directory)
NeedsMkdir_Inverted(exists) == exists

NeedsMkdir(exists) == ~exists

\* exporter: the filter of the children list
IsExportGroup(child) == Contains(Data_Grp, child) \/ Contains(Render_Grp, child)

\* exporter: group.replace(':', '_').replace('|', '_')
Sanitize_ColonOnly(group) == Replace(group, ":", <<"_">>)

Sanitize(group) == Replace(Replace(group, ":", <<"_">>), "|", <<"_">>)

ExportName(group) == Sanitize(group) \o Combined_fbx

ExportPath(dir, group) == Join(dir, ExportName(group))

\* what cmds.select(groups, hierarchy=True) selects, each group having `kids`
RECURSIVE Hierarchy(_, _)
Hierarchy(groups, kids) ==
    IF groups = <<>> THEN <<>>
    ELSE <<Head(groups)>>
         \o [k \in 1..Len(kids) |-> FullPath(Head(groups), kids[k])]
         \o Hierarchy(Tail(groups), kids)

\* the host's possible answers to the constraint and controller queries
Constraint1 == <<"c","o","n","s","t","r","a","i","n","t","1">>

ConstraintLists(groups) ==
    { <<>> } \cup { <<FullPath(g, Constraint1)>> : g \in Range(groups) }

ControllerLists(groups, suffix) ==
    IF groups = <<>>
    THEN { <<>>, <<<<"|">> \o Prop>> }
    ELSE { <<>> } \cup { <<FullPath(g, <<"x">> \o suffix)>> : g \in Range(groups) }

----------------------------------------------------------------------------
(* Initial state: the host's selection and the file system before the run *)

Init ==
    /\ sel \in Selections
    /\ sel0 = sel
    /\ dirExists \in BOOLEAN
    /\ dir0 = dirExists
    /\ pc = "import"
    /\ selected_groups = <<>>
    /\ i = 1
    /\ stages = <<>>
    /\ calls = <<>>
    /\ obs = <<>>
    /\ out = <<>>
    /\ bakeFailed = FALSE
    /\ files = {}

Msg(m, a) == [msg |-> m, arg |-> a]
Call(o, g, t) == [op |-> o, for |-> g, target |-> t]

----------------------------------------------------------------------------
(* Stage 1: import_selected_references *)

ImportEnter ==
    /\ pc = "import"
    /\ stages' = Append(stages, "import")
    /\ selected_groups' = sel
    /\ calls' = <<>>
    /\ obs' = <<>>
    /\ i' = 1
    /\ IF sel = <<>>
       THEN /\ out' = <<Msg("warning", "import")>>
            /\ pc' = AfterStage("import")
       ELSE /\ out' = <<>>
            /\ pc' = "import_loop"
    /\ UNCHANGED <<sel, sel0, bakeFailed, dirExists, dir0, files>>

ImportItem ==
    /\ pc = "import_loop"
    /\ i <= Len(selected_groups)
    /\ \E isRef \in {"yes", "no", "err"}, fileq \in {"ok", "err"}, imp \in {"ok", "err"} :
         LET group == selected_groups[i]
             asked == isRef = "yes"
             issued == IssuesImport(isRef, fileq)
             failedCmd ==
                 IF isRef = "err" \/ (asked /\ fileq = "err") THEN "referenceQuery"
                 ELSE IF issued /\ imp = "err" THEN "importReference"
                 ELSE "none"
         IN  /\ obs' = Append(obs, [item |-> group,
                                    isRef |-> isRef,
                                    fileq |-> IF asked THEN fileq ELSE "na",
                                    imp |-> IF issued THEN imp ELSE "na"])
             /\ calls' = IF issued
                         THEN Append(calls, Call("importReference", group, RefFile(group)))
                         ELSE calls
             /\ out' = Append(out,
                          IF failedCmd # "none" THEN Msg("error", group)
                          ELSE IF issued THEN Msg("imported", group)
                          ELSE Msg("local", group))
             /\ pc' = IF failedCmd = "none" THEN "import_loop"
                      ELSE AfterFailure(failedCmd, "import_loop")
    /\ i' = i + 1
    /\ UNCHANGED <<sel, sel0, selected_groups, stages, bakeFailed, dirExists, dir0, files>>

ImportExit ==
    /\ pc = "import_loop"
    /\ i > Len(selected_groups)
    /\ sel' = Select(selected_groups)
    /\ pc' = AfterStage("import")
    /\ UNCHANGED <<sel0, selected_groups, i, stages, calls, obs, out,
                   bakeFailed, dirExists, dir0, files>>

----------------------------------------------------------------------------
(* Stage 2: bake_simulation_for_selected *)

BakeEnter ==
    /\ pc = "bake"
    /\ stages' = Append(stages, "bake")
    /\ selected_groups' = sel
    /\ calls' = <<>>
    /\ obs' = <<>>
    /\ i' = 1
    /\ IF sel = <<>>
       THEN /\ out' = <<Msg("warning", "bake")>>
            /\ pc' = AfterStage("bake")
       ELSE /\ out' = <<>>
            /\ pc' = "bake_select"
    /\ UNCHANGED <<sel, sel0, bakeFailed, dirExists, dir0, files>>

BakeSelect ==
    /\ pc = "bake_select"
    /\ \E kids \in KidLists : sel' = Hierarchy(selected_groups, kids)
    /\ pc' = "bake_results"
    /\ UNCHANGED <<sel0, selected_groups, i, stages, calls, obs, out,
                   bakeFailed, dirExists, dir0, files>>

BakeResults ==
    /\ pc = "bake_results"
    /\ calls' = Append(calls, Call("bakeResults", sel, sel))
    /\ \E ok \in BOOLEAN :
         IF ok
         THEN /\ out' = Append(out, Msg("baked", sel))
              /\ pc' = "bake_restore"
              /\ UNCHANGED bakeFailed
         ELSE /\ bakeFailed' = TRUE
              /\ pc' = AfterFailure("bakeResults", "bake_restore")
              /\ UNCHANGED out
    /\ UNCHANGED <<sel, sel0, selected_groups, i, stages, obs, dirExists, dir0, files>>

BakeRestore ==
    /\ pc = "bake_restore"
    /\ sel' = BakeRestoreSel(selected_groups, sel)
    /\ pc' = AfterStage("bake")
    /\ UNCHANGED <<sel0, selected_groups, i, stages, calls, obs, out,
                   bakeFailed, dirExists, dir0, files>>

----------------------------------------------------------------------------
(* Stage 3: apply_constraints_and_remove_controllers *)

StripEnter ==
    /\ pc = "strip"
    /\ stages' = Append(stages, "strip")
    /\ selected_groups' = sel
    /\ calls' = <<>>
    /\ obs' = <<>>
    /\ out' = <<>>
    /\ i' = 1
    /\ pc' = "strip_constraints"
    /\ UNCHANGED <<sel, sel0, bakeFailed, dirExists, dir0, files>>

StripConstraints ==
    /\ pc = "strip_constraints"
    /\ \E constraints \in ConstraintLists(selected_groups), ok \in BOOLEAN :
         IF constraints # <<>>
         THEN IF ok
              THEN /\ calls' = calls \o <<Call("bakeResults", constraints, constraints),
                                          Call("delete", constraints, constraints)>>
                   /\ out' = Append(out, Msg("constraints removed", constraints))
                   /\ pc' = "strip_controllers"
                   /\ UNCHANGED bakeFailed
              ELSE /\ calls' = Append(calls, Call("bakeResults", constraints, constraints))
                   /\ bakeFailed' = TRUE
                   /\ pc' = AfterFailure("bakeResults", "strip_controllers")
                   /\ UNCHANGED out
         ELSE /\ out' = Append(out, Msg("no constraint", selected_groups))
              /\ pc' = "strip_controllers"
              /\ UNCHANGED <<calls, bakeFailed>>
    /\ UNCHANGED <<sel, sel0, selected_groups, i, stages, obs, dirExists, dir0, files>>

StripControllers ==
    /\ pc = "strip_controllers"
    /\ \E lower \in ControllerLists(selected_groups, Ctrl),
          upper \in ControllerLists(selected_groups, CTRL) :
         LET controllers == lower \o upper
         IN  IF controllers # <<>>
             THEN /\ calls' = Append(calls, Call("delete", controllers, controllers))
                  /\ out' = Append(out, Msg("controllers removed", controllers))
             ELSE /\ out' = Append(out, Msg("no controller", selected_groups))
                  /\ UNCHANGED calls
    /\ pc' = AfterStage("strip")
    /\ UNCHANGED <<sel, sel0, selected_groups, i, stages, obs,
                   bakeFailed, dirExists, dir0, files>>

----------------------------------------------------------------------------
(* Stage 4: delete_blendshapes_grp_from_selected *)

BlendEnter ==
    /\ pc = "blend"
    /\ stages' = Append(stages, "blend")
    /\ selected_groups' = sel
    /\ calls' = <<>>
    /\ obs' = <<>>
    /\ out' = <<>>
    /\ i' = 1
    /\ pc' = "blend_loop"
    /\ UNCHANGED <<sel, sel0, bakeFailed, dirExists, dir0, files>>

BlendItem ==
    /\ pc = "blend_loop"
    /\ i <= Len(selected_groups)
    /\ \E exists \in BOOLEAN :
         LET group == selected_groups[i]
             blendshapes_path == BlendPath(group)
         IN  /\ obs' = Append(obs, [item |-> group, exists |-> exists])
             /\ IF exists
                THEN /\ calls' = Append(calls, Call("delete", group, blendshapes_path))
                     /\ out' = Append(out, Msg("deleted", blendshapes_path))
                ELSE /\ out' = Append(out, Msg("not found", blendshapes_path))
                     /\ UNCHANGED calls
    /\ i' = i + 1
    /\ UNCHANGED <<pc, sel, sel0, selected_groups, stages,
                   bakeFailed, dirExists, dir0, files>>

BlendExit ==
    /\ pc = "blend_loop"
    /\ i > Len(selected_groups)
    /\ sel' = Select(selected_groups)
    /\ pc' = AfterStage("blend")
    /\ UNCHANGED <<sel0, selected_groups, i, stages, calls, obs, out,
                   bakeFailed, dirExists, dir0, files>>

----------------------------------------------------------------------------
(* Stage 5: export_combined_fbx_per_group *)

ExportEnter ==
    /\ pc = "export"
    /\ stages' = Append(stages, "export")
    /\ IF NeedsMkdir(dirExists)
       THEN /\ calls' = <<Call("makedirs", export_directory, export_directory)>>
            /\ dirExists' = TRUE
       ELSE /\ calls' = <<>>
            /\ UNCHANGED dirExists
    /\ selected_groups' = sel
    /\ obs' = <<>>
    /\ out' = <<>>
    /\ i' = 1
    /\ pc' = "export_loop"
    /\ UNCHANGED <<sel, sel0, bakeFailed, dir0, files>>

ExportItem ==
    /\ pc = "export_loop"
    /\ i <= Len(selected_groups)
    /\ \E kids \in KidLists, ok \in BOOLEAN :
         LET group == selected_groups[i]
             children == [k \in 1..Len(kids) |-> FullPath(group, kids[k])]
             export_groups == SelectSeq(children, IsExportGroup)
             export_path == ExportPath(export_directory, group)
         IN  IF export_groups # <<>>
             THEN /\ sel' = export_groups
                  /\ calls' = Append(calls, Call("exportSelected", group, export_path))
                  /\ obs' = Append(obs, [item |-> group, kids |-> kids,
                                         result |-> IF ok THEN "ok" ELSE "err"])
                  /\ IF ok
                     THEN /\ files' = { f \in files : f.path # export_path }
                                      \cup { [path |-> export_path, by |-> group] }
                          /\ out' = Append(out, Msg("exported", export_path))
                          /\ UNCHANGED pc
                     ELSE /\ out' = Append(out, Msg("error", group))
                          /\ pc' = AfterFailure("exportSelected", "export_loop")
                          /\ UNCHANGED files
             ELSE /\ obs' = Append(obs, [item |-> group, kids |-> kids, result |-> "na"])
                  /\ out' = Append(out, Msg("skipped", group))
                  /\ UNCHANGED <<pc, sel, calls, files>>
    /\ i' = i + 1
    /\ UNCHANGED <<sel0, selected_groups, stages, bakeFailed, dirExists, dir0>>

ExportExit ==
    /\ pc = "export_loop"
    /\ i > Len(selected_groups)
    /\ pc' = AfterStage("export")
    /\ UNCHANGED <<sel, sel0, selected_groups, i, stages, calls, obs, out,
                   bakeFailed, dirExists, dir0, files>>

----------------------------------------------------------------------------

Next ==
    \/ ImportEnter \/ ImportItem \/ ImportExit
    \/ BakeEnter \/ BakeSelect \/ BakeResults \/ BakeRestore
    \/ StripEnter \/ StripConstraints \/ StripControllers
    \/ BlendEnter \/ BlendItem \/ BlendExit
    \/ ExportEnter \/ ExportItem \/ ExportExit

Spec == Init /\ [][Next]_vars

----------------------------------------------------------------------------
(* Properties *)

Pipeline == <<"import", "bake", "strip", "blend", "export">>

\* the running (or last run) stage
Stage == IF stages = <<>> THEN "none" ELSE stages[Len(stages)]

IsPrefix(s, t) == Len(s) <= Len(t) /\ SubSeq(t, 1, Len(s)) = s

\* the host calls a stage may issue
OpsOf(stage) ==
    CASE stage = "import" -> {"importReference"}
      [] stage = "bake"   -> {"bakeResults"}
      [] stage = "strip"  -> {"bakeResults", "delete"}
      [] stage = "blend"  -> {"delete"}
      [] stage = "export" -> {"makedirs", "exportSelected"}
      [] OTHER            -> {}

CallsFor(item) == { c \in 1..Len(calls) : calls[c].for = item }
CallsOp(o) == { c \in 1..Len(calls) : calls[c].op = o }

\* C1: a run without an uncaught error invokes the five stages once each, in
\* the order importer, baker, constraint stripper, helper-group remover,
\* exporter; every host call belongs to the stage that is running; and only
\* a failed bake, never a per-item outcome, keeps a later stage from running.
C1_StagesInOrder ==
    /\ IsPrefix(stages, Pipeline)
    /\ \A c \in 1..Len(calls) : calls[c].op \in OpsOf(Stage)
    /\ pc = "done" => stages = Pipeline
    /\ pc = "halted" => bakeFailed

C1_Witness ==
    /\ pc = "done"
    /\ stages = Pipeline
    /\ Len(obs) = 2
    /\ obs[1].result = "err"
    /\ obs[2].result = "na"

\* C2: in the importer and in the exporter a failing reference query, import
\* or export of one item is caught: the items are processed one after the
\* other to the end of the selection list whatever failed before, and the
\* stage returns to the pipeline, which goes on.
C2_ItemFailureIsCaught ==
    Stage \in {"import", "export"} =>
        /\ pc # "halted"
        /\ Len(obs) = IF pc \in {"import_loop", "export_loop"}
                      THEN i - 1 ELSE Len(selected_groups)
        /\ \A k \in 1..Len(obs) : obs[k].item = selected_groups[k]
        /\ Stage = "import" => pc \in {"import_loop", "bake"}
        /\ Stage = "export" => pc \in {"export_loop", "done"}

C2_Witness ==
    /\ Stage = "export"
    /\ pc = "done"
    /\ Len(obs) = 2
    /\ obs[1].result = "err"
    /\ obs[2].result = "ok"

\* C3: a failed bake (of the baker or of the constraint stripper) halts the
\* script: the bake is the last host call, and no delete, no directory
\* creation and no export follows it.
C3_BakeFailureHalts ==
    bakeFailed =>
        /\ pc = "halted"
        /\ calls # <<>>
        /\ calls[Len(calls)].op = "bakeResults"
        /\ \A c \in 1..Len(calls) : calls[c].op \notin {"delete", "makedirs", "exportSelected"}
        /\ dirExists = dir0
        /\ files = {}
        /\ "blend" \notin Range(stages)
        /\ "export" \notin Range(stages)

C3_Witness ==
    /\ bakeFailed
    /\ Stage = "strip"
    /\ pc = "halted"

\* a child list none of whose names contains Data_Grp or Render_Grp
NoneNamed(kids) ==
    \A j \in 1..Len(kids) :
        ~Contains(<<"D","a","t","a","_","G","r","p">>, kids[j])
        /\ ~Contains(<<"R","e","n","d","e","r","_","G","r","p">>, kids[j])

\* C4: for an item none of whose children is named with Data_Grp or
\* Render_Grp the exporter issues no export call and logs a skip message,
\* whatever the item's own name is.
C4_NoMatchNoExport ==
    Stage = "export" =>
        \A k \in 1..Len(obs) :
            NoneNamed(obs[k].kids) =>
                /\ obs[k].result = "na"
                /\ out[k] = Msg("skipped", obs[k].item)
                /\ CallsFor(obs[k].item) = {}

\* C5: two different items are exported to two different paths, so that the
\* files written are as many as the items whose export succeeded.
C5_OneFilePerItem ==
    Stage = "export" =>
        /\ \A a, b \in CallsOp("exportSelected") :
              calls[a].for # calls[b].for => calls[a].target # calls[b].target
        /\ Cardinality(files) = Cardinality({ k \in 1..Len(obs) : obs[k].result = "ok" })

\* C6: the exporter creates a missing export directory before any export
\* call, for every selection, and issues no creation call for a directory
\* that exists.
C6_DirectoryBeforeExport ==
    Stage = "export" =>
        /\ dirExists
        /\ dir0 => CallsOp("makedirs") = {}
        /\ ~dir0 => CallsOp("makedirs") = {1}
        /\ \A c \in CallsOp("exportSelected") : \A m \in CallsOp("makedirs") : m < c

C6_Witness ==
    /\ Stage = "export"
    /\ ~dir0
    /\ pc = "done"
    /\ CallsOp("exportSelected") # {}

\* C7: the remover issues one delete call, on <item>|Data_Grp|BlendShapes_Grp,
\* for each item whose path existed when it was examined and none for the
\* other items; the stage's delete calls are as many as those items.
C7_OneDeletePerExistingPath ==
    Stage = "blend" =>
        /\ \A k \in 1..Len(obs) :
              IF obs[k].exists
              THEN /\ Cardinality(CallsFor(obs[k].item)) = 1
                   /\ \A c \in CallsFor(obs[k].item) :
                         /\ calls[c].op = "delete"
                         /\ calls[c].target =
                               obs[k].item \o <<"|","D","a","t","a","_","G","r","p","|",
                                                "B","l","e","n","d","S","h","a","p","e","s",
                                                "_","G","r","p">>
              ELSE CallsFor(obs[k].item) = {}
        /\ Len(calls) = Cardinality({ k \in 1..Len(obs) : obs[k].exists })

C7_Witness ==
    /\ Stage = "blend"
    /\ pc = "export"
    /\ Len(obs) = 2
    /\ obs[1].exists
    /\ ~obs[2].exists

\* the file name at the end of an export path
FileNameOf(path) == SubSeq(path, Len(export_directory) + 2, Len(path))

\* C8: the export file name is the identifier with each ':' and each '|'
\* replaced by '_' and every other character kept in place, followed by
\* _Combined.fbx; Char:Root|Body gives Char_Root_Body_Combined.fbx.
C8_SanitizedFileName ==
    Stage = "export" =>
        \A c \in CallsOp("exportSelected") :
            LET id == calls[c].for
                name == FileNameOf(calls[c].target)
                suffix == <<"_","C","o","m","b","i","n","e","d",".","f","b","x">>
            IN  /\ Len(name) = Len(id) + Len(suffix)
                /\ \A j \in 1..Len(name) : name[j] \notin {":", "|"}
                /\ \A j \in 1..Len(id) :
                      name[j] = IF id[j] \in {":", "|"} THEN "_" ELSE id[j]
                /\ SubSeq(name, Len(id) + 1, Len(name)) = suffix
                /\ id = <<"C","h","a","r",":","R","o","o","t","|","B","o","d","y">> =>
                      name = <<"C","h","a","r","_","R","o","o","t","_","B","o","d","y",
                               "_","C","o","m","b","i","n","e","d",".","f","b","x">>

C8_Witness ==
    /\ Stage = "export"
    /\ \E c \in CallsOp("exportSelected") : calls[c].for = CharRootBody

\* C9: the importer issues an import call for an item exactly when the item
\* was reported referenced and the query for its file succeeded; an item
\* reported local gets the "already local" message and no import call; the
\* import calls are no more than the items reported referenced.
C9_ImportOnlyReferenced ==
    Stage = "import" =>
        /\ \A k \in 1..Len(obs) :
              /\ (\E c \in CallsFor(obs[k].item) : calls[c].op = "importReference")
                    <=> (obs[k].isRef = "yes" /\ obs[k].fileq = "ok")
              /\ Cardinality(CallsFor(obs[k].item)) <= 1
              /\ obs[k].isRef = "no" =>
                    /\ out[k] = Msg("local", obs[k].item)
                    /\ CallsFor(obs[k].item) = {}
        /\ Len(calls) <= Cardinality({ k \in 1..Len(obs) : obs[k].isRef = "yes" })

C9_Witness ==
    /\ Stage = "import"
    /\ pc = "bake"
    /\ Len(obs) = 2
    /\ obs[1].isRef = "no"
    /\ obs[2].isRef = "yes"
    /\ obs[2].fileq = "ok"
    /\ Len(calls) = 1

\* C10: the importer, the baker and the remover return with the host
\* selection equal to the list they read on entry, so that every stage, the
\* exporter included, reads the list the pipeline started with.
C10_SelectionRestored ==
    /\ pc \in {"bake", "strip", "strip_constraints", "strip_controllers",
               "blend", "blend_loop", "export"} => sel = sel0
    /\ stages # <<>> => selected_groups = sel0

C10_Witness ==
    /\ pc = "strip"
    /\ Stage = "bake"
    /\ Len(sel0) = 2
    /\ calls # <<>>
    /\ calls[1].target # sel0
    /\ sel = sel0

====
